---------------------------- MODULE Spec2Model ----------------------------
(***************************************************************************)
(* slm: a command-line client that forwards one prompt to a remote chat    *)
(* completion API, prints the first reply and, with -c, keeps the turns in  *)
(* an append-only history file.  Two variants are modelled side by side:    *)
(* slm-linux.go (operators in camelCase: parseFlags, loadHist, sendChat,    *)
(* appendHist) and slm.go for 9front (lower case: parseflags, loadhist,     *)
(* sendchat, appendhist).  A behaviour is a sequence of non-overlapping     *)
(* runs of one variant against one history file.                            *)
(*                                                                         *)
(* Texts are sequences of characters.  The flags -m and -t only travel     *)
(* into the request payload and are left out.                               *)
(***************************************************************************)
EXTENDS Integers, Sequences, FiniteSets, TLC

(* ------------------------------ bounds -------------------------------- *)
MaxFileRecs == 4
MaxInitRecs == 1

(* --------------------------- input domains ---------------------------- *)
DQ == "\""
BS == "\\"
NL == "\n"

Empty == << >>

\* prompts given on the command line or on standard input
Prompts == { Empty, <<"a">>, <<DQ, NL>> }

\* contents a choice of the response can carry
Contents == { Empty, <<"b">>, <<BS>> }

\* values of the -s flag
SysPrompts == { Empty, <<"s">> }

Variants == { "linux", "plan9" }

VARIABLES
    variant,    \* which of the two programs is running
    dirExists,  \* the history directory exists on disk
    hist,       \* the history file: [state, recs]
    hist0,      \* the history file as it was when the current run started
    pc,         \* position of the current run in main
    env,        \* what the run is given: flags, argument, environment, stdin
    opts,       \* the Opts value parseFlags returns
    msgs,       \* main's local msgs
    requests,   \* the POSTs issued by the current run, in order
    resp,       \* the response the service gave (NoResp before it answers)
    reply,      \* main's local reply
    err,        \* the error the run died of (NoErr while alive)
    stdout,     \* the lines printed on standard output by the current run
    exit,       \* exit status: -1 while running
    stdinRead,  \* standard input was consumed by the current run
    histRead,   \* the history file was opened for reading by the current run
    dirMade     \* MkdirAll was called by the current run

vars == << variant, dirExists, hist, hist0, pc, env, opts, msgs,
           requests, resp, reply, err, stdout, exit, stdinRead, histRead,
           dirMade >>


(* ------------------------------ messages ------------------------------ *)
RoleUser == <<"user">>
RoleAssistant == <<"assistant">>
RoleSystem == <<"system">>

\* type Message struct { Role, Content string }
Message(role, content) == [Role |-> role, Content |-> content]

NoErr == [kind |-> "none"]
NoResp == [transport |-> "none"]
NoOpts == [set |-> FALSE]

(* ------------------------ the history file format --------------------- *)
\* Go's %q verb (strconv.Quote) on one character
quoteChar(c) ==
    IF c = DQ THEN <<BS, DQ>>
    ELSE IF c = BS THEN <<BS, BS>>
    ELSE IF c = NL THEN <<BS, "n">>
    ELSE <<c>>

RECURSIVE quoteBody(_)
quoteBody(s) ==
    IF s = Empty THEN Empty ELSE quoteChar(Head(s)) \o quoteBody(Tail(s))

\* fmt's %q: the text between double quotes, with ", \ and newline escaped
Quote(s) == <<DQ>> \o quoteBody(s) \o <<DQ>>

\* one attribute of a line of the file, as written: attr=raw
Tup(attr, raw) == [attr |-> attr, raw |-> raw]

\* fmt.Fprintf(f, "message role=%q content=%q\n", role, content)
histLine(role, content) ==
    << Tup("message", Empty), Tup("role", Quote(role)),
       Tup("content", Quote(content)) >>

RECURSIVE unescape(_)
unescape(s) ==
    IF s = Empty THEN Empty
    ELSE IF Head(s) = BS /\ Len(s) >= 2
         THEN (IF s[2] = "n" THEN <<NL>> ELSE <<s[2]>>)
              \o unescape(SubSeq(s, 3, Len(s)))
         ELSE <<Head(s)>> \o unescape(Tail(s))

\* the value the record library gives back for a written attribute value:
\* a quoted value loses its quotes and escapes, a bare one is kept
ndbValue(raw) ==
    IF Len(raw) >= 2 /\ raw[1] = DQ /\ raw[Len(raw)] = DQ
    THEN unescape(SubSeq(raw, 2, Len(raw) - 1))
    ELSE raw

\* the record the library builds from one line: tuples {Attr, Val}
ndbRecord(line) ==
    [i \in 1..Len(line) |-> [Attr |-> line[i].attr, Val |-> ndbValue(line[i].raw)]]

\* ndb.Open(path): an error for a file that is missing or does not parse
ndbOpen(h) ==
    IF h.state = "ok"
    THEN [err |-> FALSE, recs |-> [i \in 1..Len(h.recs) |-> ndbRecord(h.recs[i])]]
    ELSE [err |-> TRUE, recs |-> << >>]

hasAttr(rec, attr) == \E i \in 1..Len(rec) : rec[i].Attr = attr

\* db.Search("role", ""): the records that carry the attribute, in file order
ndbSearch(db, attr) == SelectSeq(db.recs, LAMBDA rec : hasAttr(rec, attr))

(* ------------------------------ loadHist ------------------------------ *)
\* the inner loop of loadHist over the tuples of one record, from tuple i on
RECURSIVE scanTuples(_, _, _, _)
scanTuples(rec, i, role, content) ==
    IF i > Len(rec) THEN [role |-> role, content |-> content]
    ELSE scanTuples(rec, i + 1,
                    IF rec[i].Attr = "role" THEN rec[i].Val ELSE role,
                    IF rec[i].Attr = "content" THEN rec[i].Val ELSE content)

\* the outer loop of loadHist over the records, from record i on
RECURSIVE scanRecs(_, _, _)
scanRecs(recs, i, out) ==
    IF i > Len(recs) THEN out
    ELSE LET rc == scanTuples(recs[i], 1, Empty, Empty)
         IN  scanRecs(recs, i + 1,
                      IF rc.role # Empty /\ rc.content # Empty
                      THEN Append(out, Message(rc.role, rc.content))
                      ELSE out)

\* slm-linux.go loadHist: nil when the file cannot be opened
loadHist(h) ==
    LET db == ndbOpen(h)
    IN  IF db.err THEN [panic |-> FALSE, msgs |-> << >>]
        ELSE [panic |-> FALSE, msgs |-> scanRecs(ndbSearch(db, "role"), 1, << >>)]

\* slm.go loadhist: checkit drops the error of ndb.Open and db.Search is
\* called on the nil db it returned; nilSearch is what that call does, a nil
\* pointer panic or an empty result
loadhist(h, nilSearch) ==
    LET db == ndbOpen(h)
    IN  IF db.err THEN [panic |-> nilSearch = "panic", msgs |-> << >>]
        ELSE [panic |-> FALSE, msgs |-> scanRecs(ndbSearch(db, "role"), 1, << >>)]

(* ------------------------------ appendHist ---------------------------- *)
\* the two Fprintf calls of appendHist on the opened file
appendHist(h, userp, rep) ==
    [state |-> IF h.state = "absent" THEN "ok" ELSE h.state,
     recs  |-> h.recs \o << histLine(RoleUser, userp),
                            histLine(RoleAssistant, rep) >>]

\* slm.go appendhist writes the same two lines
appendhist(h, userp, rep) ==
    [state |-> IF h.state = "absent" THEN "ok" ELSE h.state,
     recs  |-> h.recs \o << histLine(RoleUser, userp),
                            histLine(RoleAssistant, rep) >>]

(* ------------------------------- sendChat ----------------------------- *)
\* sendChat returning the last choice instead of the first
sendChatLast(r) ==
    IF r.transport = "fail"
    THEN [ok |-> FALSE, reply |-> Empty, err |-> [kind |-> "transport"]]
    ELSE IF r.status # 200
    THEN [ok |-> FALSE, reply |-> Empty,
          err |-> [kind |-> "api_status", status |-> r.status, body |-> r.body]]
    ELSE IF r.body.json /\ r.body.errmsg # Empty
    THEN [ok |-> FALSE, reply |-> Empty,
          err |-> [kind |-> "api_message", message |-> r.body.errmsg]]
    ELSE IF ~r.body.json
    THEN [ok |-> FALSE, reply |-> Empty, err |-> [kind |-> "decode"]]
    ELSE IF Len(r.body.choices) = 0
    THEN [ok |-> FALSE, reply |-> Empty, err |-> [kind |-> "empty"]]
    ELSE [ok |-> TRUE, reply |-> r.body.choices[Len(r.body.choices)], err |-> NoErr]

\* slm-linux.go sendChat, from the result of http.DefaultClient.Do on
sendChat(r) ==
    IF r.transport = "fail"
    THEN [ok |-> FALSE, reply |-> Empty, err |-> [kind |-> "transport"]]
    ELSE IF r.status # 200
    THEN [ok |-> FALSE, reply |-> Empty,
          err |-> [kind |-> "api_status", status |-> r.status, body |-> r.body]]
    ELSE IF r.body.json /\ r.body.errmsg # Empty
    THEN [ok |-> FALSE, reply |-> Empty,
          err |-> [kind |-> "api_message", message |-> r.body.errmsg]]
    ELSE IF ~r.body.json
    THEN [ok |-> FALSE, reply |-> Empty, err |-> [kind |-> "decode"]]
    ELSE IF Len(r.body.choices) = 0
    THEN [ok |-> FALSE, reply |-> Empty, err |-> [kind |-> "empty"]]
    ELSE [ok |-> TRUE, reply |-> r.body.choices[1], err |-> NoErr]

\* slm.go sendchat: the body is decoded whatever the status
sendchat(r) ==
    IF r.transport = "fail"
    THEN [ok |-> FALSE, reply |-> Empty, err |-> [kind |-> "transport"]]
    ELSE IF ~r.body.json
    THEN [ok |-> FALSE, reply |-> Empty, err |-> [kind |-> "decode"]]
    ELSE IF Len(r.body.choices) = 0
    THEN [ok |-> FALSE, reply |-> Empty, err |-> [kind |-> "empty"]]
    ELSE [ok |-> TRUE, reply |-> r.body.choices[1], err |-> NoErr]


(* ------------------------------ parseFlags ---------------------------- *)
\* the Opts value both variants return (Home, Model and Temp left out)
Opts(e, userp) ==
    [set |-> TRUE, SysPrompt |-> e.sysp, UserPrompt |-> userp,
     Continue |-> e.cont, APIKey |-> e.apikey]

\* parseFlags reading standard input before it looks at the credential
parseFlagsStdinFirst(e) ==
    IF Len(e.args) = 0 /\ e.stdinErr
    THEN [fatal |-> TRUE, err |-> [kind |-> "stdin"], opts |-> NoOpts,
          stdinRead |-> TRUE]
    ELSE IF e.apikey = Empty
    THEN [fatal |-> TRUE, err |-> [kind |-> "missingkey"], opts |-> NoOpts,
          stdinRead |-> Len(e.args) = 0]
    ELSE [fatal |-> FALSE, err |-> NoErr,
          opts |-> Opts(e, IF Len(e.args) > 0 THEN e.args[1] ELSE e.stdinData),
          stdinRead |-> Len(e.args) = 0]

\* slm-linux.go parseFlags
parseFlags(e) ==
    IF e.apikey = Empty
    THEN [fatal |-> TRUE, err |-> [kind |-> "missingkey"], opts |-> NoOpts,
          stdinRead |-> FALSE]
    ELSE IF Len(e.args) > 0
    THEN [fatal |-> FALSE, err |-> NoErr, opts |-> Opts(e, e.args[1]),
          stdinRead |-> FALSE]
    ELSE IF e.stdinErr
    THEN [fatal |-> TRUE, err |-> [kind |-> "stdin"], opts |-> NoOpts,
          stdinRead |-> TRUE]
    ELSE [fatal |-> FALSE, err |-> NoErr, opts |-> Opts(e, e.stdinData),
          stdinRead |-> TRUE]

\* slm.go parseflags: userp is assigned only inside the err != nil branch,
\* and checkit there builds an error value and drops it
parseflags(e) ==
    IF e.apikey = Empty
    THEN [fatal |-> TRUE, err |-> [kind |-> "missingkey"], opts |-> NoOpts,
          stdinRead |-> FALSE]
    ELSE IF Len(e.args) > 0
    THEN [fatal |-> FALSE, err |-> NoErr, opts |-> Opts(e, e.args[1]),
          stdinRead |-> FALSE]
    ELSE [fatal |-> FALSE, err |-> NoErr,
          opts |-> Opts(e, IF e.stdinErr THEN e.stdinData ELSE Empty),
          stdinRead |-> TRUE]

(* ---------------------------- main: messages -------------------------- *)
\* main loading the history whether -c is given or not
mainLoadAlways(v, o, h, nilSearch) ==
    IF v = "linux" THEN loadHist(h) ELSE loadhist(h, nilSearch)

\* main: msgs starts empty and is the loaded history only with -c
mainLoad(v, o, h, nilSearch) ==
    IF ~o.Continue THEN [panic |-> FALSE, msgs |-> << >>]
    ELSE IF v = "linux" THEN loadHist(h)
    ELSE loadhist(h, nilSearch)

\* main putting the system prompt in front of the history
buildMsgsSysFirst(loaded, o) ==
    (IF o.SysPrompt # Empty
     THEN << Message(RoleSystem, o.SysPrompt) >> \o loaded
     ELSE loaded)
    \o << Message(RoleUser, o.UserPrompt) >>

\* main: the system prompt, if any, and the user prompt after the history
buildMsgs(loaded, o) ==
    (IF o.SysPrompt # Empty
     THEN Append(loaded, Message(RoleSystem, o.SysPrompt))
     ELSE loaded)
    \o << Message(RoleUser, o.UserPrompt) >>

(* ------------------------- what a run is given ------------------------ *)
SeqsUpTo(S, n) == UNION { [1..k -> S] : k \in 0..n }

Prefixes(s) == { SubSeq(s, 1, k) : k \in 0..Len(s) }

\* flags, positional argument, environment and standard input of one run;
\* stdinData is what ReadAll returns: all of stdin, or a prefix with an error
Envs ==
    { [cont |-> c, sysp |-> sp, apikey |-> k, args |-> a, stdin |-> si,
       stdinErr |-> se, stdinData |-> sd] :
        c \in BOOLEAN, sp \in SysPrompts, k \in {Empty, <<"k">>},
        a \in {<< >>} \cup { <<p>> : p \in Prompts },
        si \in Prompts, se \in BOOLEAN, sd \in Prompts \cup {<<DQ>>} }

\* between two runs nothing is given
NoEnv ==
    [cont |-> FALSE, sysp |-> Empty, apikey |-> Empty, args |-> << >>,
     stdin |-> Empty, stdinErr |-> FALSE, stdinData |-> Empty]

GoodEnv(e) ==
    /\ e.stdinData \in Prefixes(e.stdin)
    /\ ~e.stdinErr => e.stdinData = e.stdin
    /\ Len(e.args) > 0 => (e.stdin = Empty /\ ~e.stdinErr)

\* lines a hand-edited history file may hold
InitLines ==
    { histLine(RoleUser, <<"a">>),
      << Tup("role", <<"user">>) >>,
      << Tup("content", Quote(<<"a">>)) >>,
      << Tup("role", Quote(RoleAssistant)), Tup("content", <<"x">>),
         Tup("content", Quote(<<NL>>)) >>,
      << Tup("role", Quote(RoleUser)), Tup("content", Quote(Empty)) >> }

InitFiles ==
    { [state |-> "absent", recs |-> << >>], [state |-> "corrupt", recs |-> << >>] }
    \cup { [state |-> "ok", recs |-> r] : r \in SeqsUpTo(InitLines, MaxInitRecs) }

\* response bodies: json says whether the body decodes as a JSON object
ChoiceLists ==
    { << >> } \cup { <<c>> : c \in Contents } \cup { <<c, <<"z">>>> : c \in Contents }

Bodies ==
    { [json |-> FALSE, errmsg |-> Empty, choices |-> << >>] }
    \cup { [json |-> TRUE, errmsg |-> m, choices |-> cl] :
             m \in {Empty, <<"e">>}, cl \in ChoiceLists }

Responses ==
    { [transport |-> "fail"] }
    \cup { [transport |-> "ok", status |-> st, body |-> b] :
             st \in {200, 500}, b \in Bodies }

(* ------------------------------- states ------------------------------- *)
\* the run-local part of the state when a run starts with what e gives it
StartRun(e) ==
    /\ pc' = "parse"
    /\ env' = e
    /\ opts' = NoOpts
    /\ msgs' = << >>
    /\ requests' = << >>
    /\ resp' = NoResp
    /\ reply' = Empty
    /\ err' = NoErr
    /\ stdout' = << >>
    /\ exit' = -1
    /\ stdinRead' = FALSE
    /\ histRead' = FALSE
    /\ dirMade' = FALSE

Init ==
    /\ variant \in Variants
    /\ hist \in InitFiles
    /\ dirExists \in BOOLEAN
    /\ hist.state # "absent" => dirExists
    /\ hist0 = hist
    /\ pc = "parse"
    /\ env \in { e \in Envs : GoodEnv(e) }
    /\ opts = NoOpts
    /\ msgs = << >>
    /\ requests = << >>
    /\ resp = NoResp
    /\ reply = Empty
    /\ err = NoErr
    /\ stdout = << >>
    /\ exit = -1
    /\ stdinRead = FALSE
    /\ histRead = FALSE
    /\ dirMade = FALSE

\* log.Fatal: the diagnostic, then exit status 1
Fatal(e) ==
    /\ pc' = "fatal"
    /\ err' = e
    /\ exit' = 1

(* ------------------------------- actions ------------------------------ *)
\* main: opts := parseFlags()
ParseFlags ==
    /\ pc = "parse"
    /\ LET r == IF variant = "linux" THEN parseFlags(env) ELSE parseflags(env)
       IN  /\ stdinRead' = r.stdinRead
           /\ IF r.fatal
              THEN Fatal(r.err) /\ UNCHANGED opts
              ELSE pc' = "ensure" /\ opts' = r.opts /\ UNCHANGED << err, exit >>
    /\ UNCHANGED << variant, dirExists, hist, hist0, env, msgs, requests,
                    resp, reply, stdout, histRead, dirMade >>

\* main: ensureHistDir(); os.MkdirAll may fail when the directory is missing.
\* slm-linux.go dies of the error, slm.go hands it to checkit and goes on
EnsureHistDir ==
    /\ pc = "ensure"
    /\ dirMade' = TRUE
    /\ \E ok \in BOOLEAN :
         /\ dirExists => ok
         /\ dirExists' = ok
         /\ IF ~ok /\ variant = "linux"
            THEN Fatal([kind |-> "mkdir"])
            ELSE pc' = "load" /\ UNCHANGED << err, exit >>
    /\ UNCHANGED << variant, hist, hist0, env, opts, msgs, requests,
                    resp, reply, stdout, stdinRead, histRead >>

\* main: msgs is the history (with -c), the system prompt, the user prompt
LoadHist ==
    /\ pc = "load"
    /\ histRead' = opts.Continue
    /\ \E nilSearch \in {"panic", "empty"} :
         LET r == mainLoad(variant, opts, hist, nilSearch)
         IN  IF r.panic
             THEN /\ pc' = "panic"
                  /\ exit' = 2
                  /\ UNCHANGED msgs
             ELSE /\ pc' = "send"
                  /\ msgs' = buildMsgs(r.msgs, opts)
                  /\ UNCHANGED exit
    /\ UNCHANGED << variant, dirExists, hist, hist0, env, opts, requests,
                    resp, reply, err, stdout, stdinRead, dirMade >>

\* main: reply, err := sendChat(opts, msgs), one POST and its answer
SendChat ==
    /\ pc = "send"
    /\ \E r \in Responses :
         LET res == IF variant = "linux" THEN sendChat(r) ELSE sendchat(r)
         IN  /\ requests' = Append(requests, [key |-> opts.APIKey, messages |-> msgs])
             /\ resp' = r
             /\ IF res.ok
                THEN pc' = "print" /\ reply' = res.reply /\ UNCHANGED << err, exit >>
                ELSE Fatal(res.err) /\ UNCHANGED reply
    /\ UNCHANGED << variant, dirExists, hist, hist0, env, opts, msgs,
                    stdout, stdinRead, histRead, dirMade >>

\* main: fmt.Println(reply); without -c main returns here
PrintReply ==
    /\ pc = "print"
    /\ stdout' = Append(stdout, reply)
    /\ IF opts.Continue
       THEN pc' = "persist" /\ UNCHANGED exit
       ELSE pc' = "done" /\ exit' = 0
    /\ UNCHANGED << variant, dirExists, hist, hist0, env, opts, msgs,
                    requests, resp, reply, err, stdinRead, histRead, dirMade >>

\* main: appendHist(opts.UserPrompt, reply); os.OpenFile with O_CREATE and
\* O_APPEND fails without the directory and may fail with it
AppendHist ==
    /\ pc = "persist"
    /\ \E opened \in BOOLEAN :
         /\ opened => dirExists
         /\ IF opened
            THEN /\ hist' = IF variant = "linux"
                            THEN appendHist(hist, opts.UserPrompt, reply)
                            ELSE appendhist(hist, opts.UserPrompt, reply)
                 /\ pc' = "done"
                 /\ exit' = 0
                 /\ UNCHANGED err
            ELSE Fatal([kind |-> "histopen"]) /\ UNCHANGED hist
    /\ UNCHANGED << variant, dirExists, hist0, env, opts, msgs, requests,
                    resp, reply, stdout, stdinRead, histRead, dirMade >>

\* the process is gone after main returned, log.Fatal exited or the panic
\* unwound: nothing of the run is left but the directory and the file
ProcessExit ==
    /\ pc \in {"done", "fatal", "panic"}
    /\ pc' = "idle"
    /\ hist0' = hist
    /\ opts' = NoOpts
    /\ msgs' = << >>
    /\ requests' = << >>
    /\ resp' = NoResp
    /\ reply' = Empty
    /\ err' = NoErr
    /\ stdout' = << >>
    /\ stdinRead' = FALSE
    /\ histRead' = FALSE
    /\ dirMade' = FALSE
    /\ env' = NoEnv
    /\ exit' = -1
    /\ UNCHANGED << variant, dirExists, hist >>

\* the next invocation of the program, after the previous one has ended;
\* no further run is followed once the file holds MaxFileRecs lines
NewRun ==
    /\ pc = "idle"
    /\ Len(hist.recs) < MaxFileRecs
    /\ \E e \in { x \in Envs : GoodEnv(x) } : StartRun(e)
    /\ UNCHANGED << variant, dirExists, hist, hist0 >>

Next ==
    \/ ParseFlags
    \/ EnsureHistDir
    \/ LoadHist
    \/ SendChat
    \/ PrintReply
    \/ AppendHist
    \/ ProcessExit
    \/ NewRun

Spec == Init /\ [][Next]_vars

(* ============================ properties ============================== *)
\* the value of the last attr=... of a line of the file, Empty without one
lastVal(line, attr) ==
    LET idx == { i \in 1..Len(line) : line[i].attr = attr }
    IN  IF idx = {} THEN Empty
        ELSE ndbValue(line[CHOOSE i \in idx : \A j \in idx : j <= i].raw)

\* the messages a history file stands for: its lines with a role and a
\* content, in file order; none for a file that is missing or unreadable
HistoryOf(h) ==
    IF h.state # "ok" THEN << >>
    ELSE LET good == SelectSeq(h.recs, LAMBDA l :
                        lastVal(l, "role") # Empty /\ lastVal(l, "content") # Empty)
         IN  [i \in 1..Len(good) |->
                Message(lastVal(good[i], "role"), lastVal(good[i], "content"))]

Ended == pc \in {"done", "fatal", "panic"}
Posted == Len(requests) > 0
Answered == resp # NoResp /\ resp.transport = "ok"

\* the file is the old one followed by a user line and an assistant line
Extended(old, new, userp, rep) ==
    /\ Len(new.recs) = Len(old.recs) + 2
    /\ SubSeq(new.recs, 1, Len(old.recs)) = old.recs
    /\ new.recs[Len(old.recs) + 1] =
         << Tup("message", Empty), Tup("role", Quote(RoleUser)),
            Tup("content", Quote(userp)) >>
    /\ new.recs[Len(old.recs) + 2] =
         << Tup("message", Empty), Tup("role", Quote(RoleAssistant)),
            Tup("content", Quote(rep)) >>

C2_StatusError ==
    (Answered /\ resp.status # 200) =>
        /\ pc = "fatal"
        /\ err.kind = "api_status"
        /\ err.status = resp.status
        /\ err.body = resp.body
        /\ stdout = << >>
        /\ exit = 1

\* C3: status 200 with a non-empty error.message in the body ends the run
\* with the API error carrying that message, choices or not.
C3_EmbeddedError ==
    (Answered /\ resp.status = 200 /\ resp.body.json /\ resp.body.errmsg # Empty) =>
        /\ pc = "fatal"
        /\ err.kind = "api_message"
        /\ err.message = resp.body.errmsg
        /\ stdout = << >>
        /\ exit = 1

Clean200 ==
    Answered /\ resp.status = 200 /\ resp.body.json /\ resp.body.errmsg = Empty

\* C4 as stated: a clean 200 body with choices prints the first choice and
\* exits 0; with no choice the run exits 1 with the empty-response error.
C4_AsStated ==
    Clean200 =>
        IF Len(resp.body.choices) = 0
        THEN pc = "fatal" /\ err.kind = "empty" /\ exit = 1 /\ stdout = << >>
        ELSE /\ pc \in {"print", "persist", "done"}
             /\ pc # "print" => stdout = << resp.body.choices[1] >>
             /\ Ended => exit = 0

\* C4 amended: as stated, except that with -c the run exits 1 after printing
\* the reply when the history file cannot be opened for append.
C4_FirstChoice ==
    Clean200 =>
        IF Len(resp.body.choices) = 0
        THEN pc = "fatal" /\ err.kind = "empty" /\ exit = 1 /\ stdout = << >>
        ELSE /\ reply = resp.body.choices[1]
             /\ pc = "print" => stdout = << >>
             /\ pc # "print" => stdout = << resp.body.choices[1] >>
             /\ \/ pc \in {"print", "persist"} /\ ~Ended
                \/ pc = "done" /\ exit = 0
                \/ pc = "fatal" /\ exit = 1 /\ err.kind = "histopen" /\ env.cont

C4_Witness ==
    /\ Clean200
    /\ Len(resp.body.choices) = 2
    /\ resp.body.choices[1] # resp.body.choices[2]
    /\ pc = "done"
    /\ stdout = << resp.body.choices[1] >>

\* C5: without the credential the run ends in parseFlags with exit status 1:
\* no request, standard input not read, directory and file untouched.
C5_MissingCredential ==
    (env.apikey = Empty /\ pc \notin {"parse", "idle"}) =>
        /\ pc = "fatal"
        /\ err.kind = "missingkey"
        /\ exit = 1
        /\ requests = << >>
        /\ resp = NoResp
        /\ ~stdinRead
        /\ ~dirMade
        /\ ~histRead
        /\ hist = hist0

C5_Witness ==
    /\ env.apikey = Empty
    /\ Len(env.args) = 0
    /\ env.cont
    /\ pc = "fatal"

\* C6: without -c the history file is not read and not written, and the
\* request holds nothing but the system prompt and the user prompt.
C6_NoContinueFrame ==
    ~env.cont =>
        /\ ~histRead
        /\ hist = hist0
        /\ \A i \in 1..Len(requests) :
             \A j \in 1..Len(requests[i].messages) :
                \/ requests[i].messages[j] = [Role |-> RoleUser, Content |-> opts.UserPrompt]
                \/ /\ requests[i].messages[j] = [Role |-> RoleSystem, Content |-> env.sysp]
                   /\ j = 1

C6_Witness ==
    /\ ~env.cont
    /\ pc = "done"
    /\ Len(HistoryOf(hist)) > 0
    /\ Posted

\* C7: once appendHist has written the prompt and the reply of the run,
\* loading the file gives them back as its last two messages, user then
\* assistant, whatever the two texts are.
C7_RoundTrip ==
    (pc = "done" /\ opts.Continue /\ hist.state = "ok") =>
        LET l == loadHist(hist).msgs
        IN  /\ Len(l) >= 2
            /\ l[Len(l) - 1] = [Role |-> RoleUser, Content |-> opts.UserPrompt]
            /\ l[Len(l)] = [Role |-> RoleAssistant, Content |-> reply]

\* C8: with -c and a history file that is missing or does not parse, the
\* run goes on, its request holds only the system prompt and the user
\* prompt, and a run that ends well has appended the two new lines.
C8_NoHistoryContinues ==
    (opts # NoOpts /\ opts.Continue /\ hist0.state # "ok"
        /\ pc \notin {"parse", "ensure", "load"}) =>
        /\ pc # "panic"
        /\ Posted =>
             requests[1].messages =
                (IF env.sysp # Empty
                 THEN << [Role |-> RoleSystem, Content |-> env.sysp] >>
                 ELSE << >>)
                \o << [Role |-> RoleUser, Content |-> opts.UserPrompt] >>
        /\ pc = "done" => Extended(hist0, hist, opts.UserPrompt, reply)

\* C9: without a positional argument the prompt of the run is all of
\* standard input, and a failed read ends the run before any request.
C9_PromptFromStdin ==
    (env.apikey # Empty /\ Len(env.args) = 0 /\ pc \notin {"parse", "idle"}) =>
        IF env.stdinErr
        THEN pc = "fatal" /\ err.kind = "stdin" /\ requests = << >> /\ exit = 1
        ELSE /\ stdinRead
             /\ opts.UserPrompt = env.stdin
             /\ Posted =>
                  requests[1].messages[Len(requests[1].messages)].Content = env.stdin

\* C10: the file changes only by a run with -c appending the user line with
\* its prompt and the assistant line with its reply, after its one request
\* was answered with status 200, no embedded error and a choice, and the
\* reply was printed; a run with -c that ends well has appended; no run
\* posts twice.
C10_AppendOnly ==
    [][ /\ hist' # hist =>
             /\ Extended(hist, hist', opts.UserPrompt, reply)
             /\ env.cont
             /\ Len(requests) = 1
             /\ Clean200
             /\ Len(resp.body.choices) > 0
             /\ reply = resp.body.choices[1]
             /\ stdout = << reply >>
        /\ (env.cont /\ pc # "done" /\ pc' = "done") =>
             Extended(hist, hist', opts.UserPrompt, reply)
        /\ Len(requests') <= 1
      ]_vars

=============================================================================
